---- MODULE Spec2Model ----
(***************************************************************************)
(* Model of the fleet-scanning core of Contar:                             *)
(*   app/network/ssh_client.py  SSHClient (probe, handshake, command,      *)
(*                              close, context manager, command builder)  *)
(*   app/core/engine.py         ProcessamentoEngine (_processar_com_retry, *)
(*                              processar_unidade, processar_em_lote)      *)
(* The worker pool (ThreadPoolExecutor), the retry decorator (tenacity)    *)
(* and as_completed are modelled by what the engine asks of them.          *)
(***************************************************************************)
EXTENDS Integers, Sequences, FiniteSets, TLC

(***************************************************************************)
(* Bounds of the model.                                                    *)
(***************************************************************************)
NumTasks == 2        \* longest task list of the general specification
MaxWorkers == 2      \* largest pool size (_max_workers) explored
FleetSize == 6       \* length of the task list of the fleet specification
MaxFilters == 2      \* longest filter list handed to the command builder
MaxFilterLen == 2    \* longest filter string
MaxCalls == 3        \* calls made on one SSHClient used directly
MaxObjCalls == 3     \* constructor and repr calls made on their own
MaxClientes == 1
MaxMsgLen == 102     \* largest |clientes| given to RadioResult

(***************************************************************************)
(* Program constants (app/utils/constants.py).                             *)
(***************************************************************************)
RETRY_ATTEMPTS == 3
CIRCUIT_BREAKER_THRESHOLD == 5
NOTE_CAP == 100

ONLINE == "Online"
OFFLINE == "Offline"
ERRO_AUTH == "Erro Auth"
ERRO_SSH == "Erro SSH"
TIMEOUT == "Timeout"
ERRO == "Erro"
DESCONHECIDO == "Desconhecido"
StatusRadio == {ONLINE, OFFLINE, ERRO_AUTH, ERRO_SSH, TIMEOUT, ERRO, DESCONHECIDO}

AllTasks == 1..(IF FleetSize > NumTasks THEN FleetSize ELSE NumTasks)

(***************************************************************************)
(* Exceptions.  A raised exception is the name of its class; NoExc is the  *)
(* absence of one.  IsA gives the subclass relation the except clauses of  *)
(* the code rely on.                                                       *)
(***************************************************************************)
NoExc == "none"
Parents(c) ==
    CASE c = "socket.timeout" -> {"TimeoutError", "OSError"}
      [] c = "TimeoutError" -> {"OSError"}
      [] c = "ConnectionError" -> {"OSError"}
      [] c = "paramiko.AuthenticationException" -> {"paramiko.SSHException"}
      [] OTHER -> {}

\* IsA with "except Exception" catching nothing (a handler narrowed to the
\* project's own exception classes).
IsA_NarrowCatch(c, k) ==
    \/ c = k
    \/ k \in Parents(c)
    \/ \E p \in Parents(c) : k \in Parents(p)

IsA(c, k) ==
    \/ c = k
    \/ k = "Exception"
    \/ k \in Parents(c)
    \/ \E p \in Parents(c) : k \in Parents(p)

(***************************************************************************)
(* Text.  A string is a sequence of characters over a small alphabet that  *)
(* has a member of every class the code distinguishes.                     *)
(***************************************************************************)
AllowedChars == {"m", "a", "c", "7", "_", "-"}       \* [a-zA-Z0-9_\-]
FilterChars == {"a", "_", ";", "\n"}                 \* characters of the filters explored
Whitespace == {" ", "\n"}
AsciiDigits == {"0", "1", "7"}
UnicodeDigits == AsciiDigits \cup {"sup2"}           \* U+00B2: isdigit, not decimal

DigitVal(c) == CASE c = "0" -> 0 [] c = "1" -> 1 [] c = "7" -> 7 [] OTHER -> 0

RECURSIVE lstrip(_)
lstrip(s) == IF s # <<>> /\ Head(s) \in Whitespace THEN lstrip(Tail(s)) ELSE s

RECURSIVE rstrip(_)
rstrip(s) ==
    IF s # <<>> /\ s[Len(s)] \in Whitespace THEN rstrip(SubSeq(s, 1, Len(s) - 1)) ELSE s

\* The text as read, not trimmed.
strip_Untrimmed(s) == s

strip(s) == rstrip(lstrip(s))

isdigit(s) == s # <<>> /\ \A i \in 1..Len(s) : s[i] \in UnicodeDigits

\* int(s) for a string that passed isdigit: a ValueError unless every
\* character is a decimal digit.
IntRaises(s) == \E i \in 1..Len(s) : s[i] \notin AsciiDigits

RECURSIVE IntValue(_)
IntValue(s) ==
    IF s = <<>> THEN 0 ELSE 10 * IntValue(SubSeq(s, 1, Len(s) - 1)) + DigitVal(s[Len(s)])

(***************************************************************************)
(* Command policy: SSHClient._build_safe_command.                          *)
(***************************************************************************)
SSHCommandType == {"wstalist", "mca-status", "uptime"}
WSTALIST == "wstalist"
MacFilter == <<"m", "a", "c">>

\* re.match(r"^[a-zA-Z0-9_\-]+$", f): one or more allowed characters up to
\* the end of the string; without re.MULTILINE, $ also matches just before
\* a newline that ends the string.
re_match(f) ==
    LET body == IF f # <<>> /\ f[Len(f)] = "\n" THEN SubSeq(f, 1, Len(f) - 1) ELSE f
    IN  /\ body # <<>>
        /\ \A i \in 1..Len(body) : body[i] \in AllowedChars

\* f'grep -c \'"{f}\''
GrepSegment(f) == <<"grep -c '\"">> \o f \o <<"'">>

RECURSIVE JoinPipes(_)
JoinPipes(segs) ==
    IF Len(segs) = 1 THEN segs[1]
    ELSE segs[1] \o <<" | ">> \o JoinPipes(Tail(segs))

\* Outcome of the builder: the exception it raises (NoExc when it returns)
\* and the command string it returns.  "not filters" holds of None and of
\* the empty list alike; both are the empty sequence here.
build_safe_command(cmd_type, filters) ==
    IF filters = <<>>
    THEN [exc |-> NoExc, cmd |-> <<cmd_type>>]
    ELSE IF \E i \in 1..Len(filters) : ~re_match(filters[i])
         THEN [exc |-> "ValueError", cmd |-> <<>>]
         ELSE [exc |-> NoExc,
               cmd |-> <<cmd_type>> \o <<" | ">>
                       \o JoinPipes([i \in 1..Len(filters) |-> GrepSegment(filters[i])])]

(***************************************************************************)
(* Remote session: one SSHClient object.                                   *)
(*   client     self.client is not None                                    *)
(*   connected  self._connected                                            *)
(*   created    a paramiko client was created by connect() (line 87)       *)
(*   closeRan   SSHClient.close() called close() on that paramiko client   *)
(*   connectExc the exception the last connect() raised to its caller      *)
(*   policy     the missing-host-key policy set by connect()               *)
(*   warned     the "inseguro para producao" warning was logged            *)
(*   target     self.host, self.user, self.password, self.port             *)
(*   sent       the command strings handed to exec_command, in order       *)
(* A device behaves in one way for the whole run:                          *)
(*   refused   the TCP probe fails (refused, timeout, DNS failure)         *)
(*   sockerr   the probe passes, the handshake ends in a socket error      *)
(*   authfail  the probe passes, the credentials are rejected              *)
(*   proto     the probe passes, the negotiation fails otherwise           *)
(*   cmdfail   connected, the command ends with a non-zero exit status     *)
(*   hang      connected, the command's exit status does not arrive; if it *)
(*             ever does, the device answers out                           *)
(*   ok        connected, exit status 0, standard output out               *)
(* closefail says that closing the paramiko client raises; hostkey how the *)
(* device's key stands in ~/.ssh/known_hosts ("known", "unknown",          *)
(* "mismatch"); err is the standard error of the command.                  *)
(***************************************************************************)
NoTarget == [host |-> <<"none", 0>>, user |-> <<"none", 0>>,
             password |-> <<"none", 0>>, port |-> <<"none", 0>>]

NewSession == [client |-> FALSE, connected |-> FALSE, created |-> FALSE,
               closeRan |-> FALSE, connectExc |-> NoExc, policy |-> "none",
               warned |-> FALSE, sent |-> <<>>, target |-> NoTarget]

\* SSHClient(host, user, password, port): the object before connect().
SSHClient_init(host, user, password, port) ==
    [NewSession EXCEPT !.target = [host |-> host, user |-> user,
                                   password |-> password, port |-> port]]

Outputs == { <<"7">>, <<" ", "1", "0", "\n">>, <<>>, <<"e", "r", "r">>, <<"sup2">> }

Device(k, o, cf, hk, e) ==
    [kind |-> k, out |-> o, closefail |-> cf, hostkey |-> hk, err |-> e]

Behaviours ==
    {Device(k, <<>>, FALSE, "known", <<>>) :
        k \in {"refused", "sockerr", "authfail", "proto"}}
    \cup {Device("cmdfail", <<>>, FALSE, "known", <<"b", "\n">>)}
    \cup {Device("hang", <<"7">>, FALSE, "known", <<>>)}
    \cup {Device("ok", o, FALSE, "known", <<>>) : o \in Outputs}
    \cup {Device("ok", <<"7">>, TRUE, "known", <<>>)}
    \cup {Device("ok", <<"7">>, FALSE, "unknown", <<>>)}

\* SSHClient._is_port_open
is_port_open(d) == d.kind # "refused"

\* A policy that adds unknown keys whether known_hosts exists or not.
host_key_policy_AlwaysAdd(kh) == "AutoAddPolicy"

\* SSHClient._configure_host_key_policy: the policy set when
\* KNOWN_HOSTS_FILE exists (kh) and when it does not.
host_key_policy(kh) == IF kh THEN "RejectPolicy" ELSE "AutoAddPolicy"

\* What paramiko raises when it checks the server's key under the policy:
\* known_hosts is loaded only with RejectPolicy, so without it no key is
\* stored to mismatch and every key is added.
HostKeyExc(d, policy) ==
    IF policy = "RejectPolicy" /\ d.hostkey # "known"
    THEN "paramiko.SSHException"
    ELSE NoExc

\* What paramiko's connect raises on the device's behaviour.
HandshakeExc(d) ==
    CASE d.kind = "sockerr" -> "socket.timeout"
      [] d.kind = "authfail" -> "paramiko.AuthenticationException"
      [] d.kind = "proto" -> "paramiko.SSHException"
      [] OTHER -> NoExc

\* The except clauses with paramiko.SSHException placed before its subclass
\* paramiko.AuthenticationException.
connect_except_SSHFirst(e) ==
    IF IsA(e, "socket.timeout") THEN "DeviceOfflineError"
    ELSE IF IsA(e, "OSError") THEN "DeviceOfflineError"
    ELSE IF IsA(e, "paramiko.SSHException") THEN "SSHExecutionError"
    ELSE IF IsA(e, "paramiko.AuthenticationException") THEN "AuthenticationError"
    ELSE "SSHExecutionError"

\* The except clauses of connect(), in order: the exception connect() raises
\* for an exception e raised inside its try block.
connect_except(e) ==
    IF IsA(e, "socket.timeout") THEN "DeviceOfflineError"
    ELSE IF IsA(e, "OSError") THEN "DeviceOfflineError"
    ELSE IF IsA(e, "paramiko.AuthenticationException") THEN "AuthenticationError"
    ELSE IF IsA(e, "paramiko.SSHException") THEN "SSHExecutionError"
    ELSE "SSHExecutionError"

\* SSHClient.connect on device d: the session afterwards and the exception
\* raised to the caller.
connect(s, d, kh) ==
    IF ~is_port_open(d)
    THEN LET x == connect_except("DeviceOfflineError")
         IN  [s |-> [s EXCEPT !.connectExc = x], exc |-> x]
    ELSE LET pol == host_key_policy(kh)
             s1 == [s EXCEPT !.client = TRUE, !.created = TRUE, !.policy = pol,
                             !.warned = (pol = "AutoAddPolicy")]
             e == IF d.kind \in {"sockerr", "proto"} \/ HostKeyExc(d, pol) = NoExc
                  THEN HandshakeExc(d)
                  ELSE HostKeyExc(d, pol)
             x == connect_except(e)
         IN  IF e # NoExc
             THEN [s |-> [s1 EXCEPT !.connectExc = x], exc |-> x]
             ELSE [s |-> [s1 EXCEPT !.connected = TRUE, !.connectExc = NoExc],
                   exc |-> NoExc]

\* The exit status of the command on device d.
ExitStatus(d) == IF d.kind = "cmdfail" THEN 1 ELSE 0

\* A message that reports the exit status only.
FailureMessage_CodeOnly(d) ==
    <<"Comando falhou: ", "Comando falhou com codigo ", "1">>

\* Lines 223-228: the message of the SSHExecutionError raised for a
\* non-zero exit status.
FailureMessage(d) ==
    LET error == strip(d.err)
    IN  <<"Comando falhou: ">>
        \o (IF error # <<>> THEN error ELSE <<"Comando falhou com codigo ", "1">>)

\* execute_safe_command guarded by the _connected flag alone.
execute_safe_command_FlagOnly(s, cmd_type, filters, d) ==
    IF ~s.connected
    THEN [s |-> s, exc |-> "ConnectionError", output |-> <<>>, msg |-> <<>>]
    ELSE LET b == build_safe_command(cmd_type, filters)
         IN  IF b.exc # NoExc
             THEN [s |-> s, exc |-> "SSHExecutionError", output |-> <<>>, msg |-> <<>>]
             ELSE LET s1 == [s EXCEPT !.sent = Append(@, b.cmd)]
                  IN  IF ExitStatus(d) # 0
                      THEN [s |-> s1, exc |-> "SSHExecutionError", output |-> <<>>,
                            msg |-> FailureMessage(d)]
                      ELSE [s |-> s1, exc |-> NoExc, output |-> strip(d.out),
                            msg |-> <<>>]

\* SSHClient.execute_safe_command on device d (which answers the command):
\* the session afterwards, the exception raised with its message, and the
\* output returned.
execute_safe_command(s, cmd_type, filters, d) ==
    IF ~s.connected \/ ~s.client
    THEN [s |-> s, exc |-> "ConnectionError", output |-> <<>>, msg |-> <<>>]
    ELSE LET b == build_safe_command(cmd_type, filters)
         IN  IF b.exc # NoExc
             THEN [s |-> s, exc |-> "SSHExecutionError", output |-> <<>>, msg |-> <<>>]
             ELSE LET s1 == [s EXCEPT !.sent = Append(@, b.cmd)]
                  IN  IF ExitStatus(d) # 0
                      THEN [s |-> s1, exc |-> "SSHExecutionError", output |-> <<>>,
                            msg |-> FailureMessage(d)]
                      ELSE [s |-> s1, exc |-> NoExc, output |-> strip(d.out),
                            msg |-> <<>>]

\* SSHClient.close; fails says that the paramiko client's close() raises.
close(s, fails) ==
    IF ~s.client THEN s
    ELSE IF fails THEN [s EXCEPT !.closeRan = TRUE, !.client = FALSE]
    ELSE [s EXCEPT !.closeRan = TRUE, !.connected = FALSE, !.client = FALSE]

(***************************************************************************)
(* Engine: ProcessamentoEngine.                                            *)
(***************************************************************************)
VARIABLES
    credsOk,              \* self._get_credentials() returns (user, password, port)
    maxw,                 \* self._max_workers
    ntasks,               \* len(lista_tarefas); the tasks are 1..ntasks
    dev,                  \* how each task's device behaves
    pc,                   \* where each task's work item is
    sess,                 \* the SSHClient of the task's latest session attempt
    attempts,             \* SSHClient.connect calls made for the task
    tries,                \* calls of the decorated _processar_com_retry body
    res,                  \* the task's resultado dict
    excAtt,               \* exception leaving the body / set on the future
    snap,                 \* as_completed: futures found finished at its start
    doneQ,                \* as_completed: futures finished since, in order
    yielded,              \* futures the for loop has been handed
    resultados,           \* processar_em_lote's output list
    falhas_consecutivas,  \* the circuit breaker's counter
    cpc,                  \* where processar_em_lote is
    raisedExc,            \* exception leaving processar_em_lote
    late,                 \* tasks whose worker had not finished at the deadline
    knownHosts,           \* SSHClient.KNOWN_HOSTS_FILE.exists()
    cli,                  \* an SSHClient used directly by a caller
    progresso,            \* counts the caller's progress callback was called with
    objs,                 \* objects constructed and rendered on their own
    cmdIn,                \* command builder called on its own: arguments
    cmdOut,               \* ... and outcome
    nota                  \* an error turned into the note of a Result, on its own

vars == <<credsOk, maxw, ntasks, dev, pc, sess, attempts, tries, res, excAtt,
          snap, doneQ, yielded, resultados, falhas_consecutivas, cpc, raisedExc,
          late, knownHosts, cli, progresso, objs, cmdIn, cmdOut, nota>>

engineVars == <<credsOk, maxw, ntasks, dev, pc, sess, attempts, tries, res, excAtt,
                snap, doneQ, yielded, resultados, falhas_consecutivas, cpc, raisedExc, late,
                knownHosts, cli, progresso, objs, nota>>

engineVars_NoNota ==
    <<credsOk, maxw, ntasks, dev, pc, sess, attempts, tries, res, excAtt,
      snap, doneQ, yielded, resultados, falhas_consecutivas, cpc, raisedExc, late,
      knownHosts, cli, progresso, objs>>

Submitted == 1..ntasks

\* RadioTask fields of task t.
TaskIp(t) == <<"ip", t>>
TaskNome(t) == <<"nome", t>>
TaskTorre(t) == <<"torre", t>>
TaskUsername(t) == <<"username", t>>
TaskPassword(t) == <<"password", t>>
TaskPort(t) == <<"port", t>>

\* The tuple self._get_credentials() returns: SSH_USER, SSH_PASSWORD and
\* SSH_PORT of the engine's configuration.
EngineCredentials ==
    [user |-> <<"SSH_USER", 0>>, password |-> <<"SSH_PASSWORD", 0>>,
     port |-> <<"SSH_PORT", 0>>]

\* Resultado with the default of getattr(tarefa, 'nome', 'N/A') taken
\* whatever the task.
Resultado_DefaultNome(t, status, clientes, erro) ==
    [ip |-> TaskIp(t), nome |-> <<"nome", 0>>, torre |-> TaskTorre(t),
     status |-> status, clientes |-> clientes, erro |-> erro]

\* The dict built at lines 91-99, 161-169, 209-217 and 222-230.
Resultado(t, status, clientes, erro) ==
    [ip |-> TaskIp(t), nome |-> TaskNome(t), torre |-> TaskTorre(t),
     status |-> status, clientes |-> clientes, erro |-> erro]

NoErro == "None"
MsgNote == "str(e)[:100]"

\* A note that is the whole message.
note_Whole(m) == m

\* str(e)[:100] (lines 131, 141, 229) of the message m of e.
note(m) == SubSeq(m, 1, IF Len(m) < NOTE_CAP THEN Len(m) ELSE NOTE_CAP)

\* Exceptions raised with no message at all.
raised_messages_Bare(e) == {<<>>}

\* The literal text that begins the message at each place an exception of
\* class e is raised on the way to the except clauses of the engine (by
\* SSHClient, by the credentials lookup, by int()); each text stands as one
\* element.  Nothing is known of the message of any other class.
raised_messages(e) ==
    CASE e = "SSHExecutionError" ->
             {<<"Erro SSH em ">>, <<"Erro desconhecido ao conectar em ">>,
              <<"Comando falhou: ">>, <<"Erro de protocolo SSH em ">>,
              <<"Erro ao executar comando em ">>}
      [] e = "AuthenticationError" -> {<<"Falha na autenticacao em ">>}
      [] e = "DeviceOfflineError" -> {<<"Host ">>, <<"Timeout ao conectar em ">>}
      [] e = "ConnectionError" -> {<<"Cliente SSH nao esta conectado.">>}
      [] e = "ValueError" -> {<<"invalid literal for int() with base 10: ">>}
      [] e = "TypeError" -> {<<"unhashable type: ">>}
      [] OTHER -> {<<>>}

\* resultado["erro"] = str(e)[:100]: EmptyNote when the message of e may be
\* empty, MsgNote (some text) otherwise.
EmptyNote == ""
NoteTokens == {MsgNote, EmptyNote}
NoteOf(e) == IF \E m \in raised_messages(e) : note(m) = <<>> THEN EmptyNote ELSE MsgNote

\* self._get_credentials() at line 103: the exception it raises.  The
\* method is wrapped in lru_cache, which hashes self; the dataclass defines
\* __eq__ and no __hash__, so on an instance of the class as written the
\* call raises TypeError before the body runs.  ok stands for a lookup that
\* returns (an engine whose lookup has been made to work).
get_credentials(ok) == IF ok THEN NoExc ELSE "TypeError"

\* The count stored without the status being set to Online.
parse_output_CountOnly(r, output) ==
    IF output # <<>> /\ isdigit(output)
    THEN IF IntRaises(output)
         THEN [res |-> r, exc |-> "ValueError"]
         ELSE [res |-> [r EXCEPT !.clientes = IntValue(output)], exc |-> NoExc]
    ELSE [res |-> [r EXCEPT !.status = ERRO, !.erro = "Output invalido"], exc |-> NoExc]

\* The cast made without validating the output first.
parse_output_CastFirst(r, output) ==
    IF output = <<>> \/ IntRaises(output)
    THEN [res |-> r, exc |-> "ValueError"]
    ELSE [res |-> [r EXCEPT !.clientes = IntValue(output), !.status = ONLINE],
          exc |-> NoExc]

\* Lines 110-117: the dict after the output has been looked at, and the
\* exception raised meanwhile.
parse_output(r, output) ==
    IF output # <<>> /\ isdigit(output)
    THEN IF IntRaises(output)
         THEN [res |-> r, exc |-> "ValueError"]
         ELSE [res |-> [r EXCEPT !.clientes = IntValue(output), !.status = ONLINE],
               exc |-> NoExc]
    ELSE [res |-> [r EXCEPT !.status = ERRO, !.erro = "Output invalido"], exc |-> NoExc]

\* Except clauses whose last one swallows the exception and leaves the dict
\* as it was.
engine_except_Swallow(r, e) ==
    IF e = NoExc THEN [res |-> r, exc |-> NoExc]
    ELSE IF IsA(e, "AuthenticationError")
    THEN [res |-> [r EXCEPT !.status = ERRO_AUTH, !.erro = "Credenciais invalidas"],
          exc |-> NoExc]
    ELSE IF IsA(e, "DeviceOfflineError")
    THEN [res |-> [r EXCEPT !.status = OFFLINE, !.erro = "Dispositivo inacessivel"],
          exc |-> NoExc]
    ELSE IF IsA(e, "SSHExecutionError")
    THEN [res |-> [r EXCEPT !.status = ERRO_SSH, !.erro = NoteOf(e)], exc |-> NoExc]
    ELSE IF IsA(e, "TimeoutError")
    THEN [res |-> [r EXCEPT !.status = TIMEOUT, !.erro = "Timeout na conexao"],
          exc |-> NoExc]
    ELSE [res |-> r, exc |-> NoExc]

\* The except clauses of _processar_com_retry (lines 119-142), in order:
\* the dict and the exception that leaves the function body.
engine_except(r, e) ==
    IF e = NoExc THEN [res |-> r, exc |-> NoExc]
    ELSE IF IsA(e, "AuthenticationError")
    THEN [res |-> [r EXCEPT !.status = ERRO_AUTH, !.erro = "Credenciais invalidas"],
          exc |-> NoExc]
    ELSE IF IsA(e, "DeviceOfflineError")
    THEN [res |-> [r EXCEPT !.status = OFFLINE, !.erro = "Dispositivo inacessivel"],
          exc |-> NoExc]
    ELSE IF IsA(e, "SSHExecutionError")
    THEN [res |-> [r EXCEPT !.status = ERRO_SSH, !.erro = NoteOf(e)], exc |-> NoExc]
    ELSE IF IsA(e, "TimeoutError")
    THEN [res |-> [r EXCEPT !.status = TIMEOUT, !.erro = "Timeout na conexao"],
          exc |-> NoExc]
    ELSE IF IsA(e, "Exception")
    THEN [res |-> [r EXCEPT !.status = ERRO, !.erro = NoteOf(e)], exc |-> NoExc]
    ELSE [res |-> r, exc |-> e]

\* A retry policy that calls the body again whatever the last call did.
retry_decision_AlwaysRetry(e, n) ==
    IF n < RETRY_ATTEMPTS THEN "retry"
    ELSE IF e = NoExc THEN "return"
    ELSE "reraise"

\* The retry decorator (lines 71-80) after call number n of the body ended
\* with exception e (NoExc: it returned).
retry_decision(e, n) ==
    IF e = NoExc THEN "return"
    ELSE IF /\ \E k \in {"ConnectionError", "TimeoutError", "DeviceOfflineError"} : IsA(e, k)
            /\ n < RETRY_ATTEMPTS
    THEN "retry"
    ELSE "reraise"

\* processar_unidade (lines 156-169): what the worker's future is set to.
processar_unidade(t, r, e) ==
    IF e = NoExc THEN [res |-> r, exc |-> NoExc]
    ELSE IF IsA(e, "Exception")
    THEN [res |-> Resultado(t, ERRO, 0, "Falha apos multiplas tentativas"), exc |-> NoExc]
    ELSE [res |-> r, exc |-> e]

(***************************************************************************)
(* Workers: one work item of the pool runs processar_unidade(tarefa).      *)
(***************************************************************************)
InFlight == {t \in Submitted : pc[t] \in {"running", "inwith", "blocked"}}
Queued == {t \in Submitted : pc[t] = "queued"}
Unfinished == {t \in Submitted : pc[t] \notin {"done", "cancelled"}}

\* A pool that starts every work item at once.
worker_available_Unbounded(busy, limit) == TRUE

\* ThreadPoolExecutor(max_workers=self._max_workers): a work item starts
\* only while fewer than max_workers of them are being run.
worker_available(busy, limit) == busy < limit

\* A call of the body of _processar_com_retry, the n-th for task t, has
\* reached its end with dict r and pending exception e: the except clauses
\* run, then the retry decorator calls the body again or lets the outcome
\* through to processar_unidade, whose return completes the future.
EndAttempt(t, r, e, n) ==
    LET h == engine_except(r, e)
        f == processar_unidade(t, h.res, h.exc)
    IN  IF retry_decision(h.exc, n) = "retry"
        THEN /\ res' = [res EXCEPT ![t] = h.res]
             /\ excAtt' = [excAtt EXCEPT ![t] = h.exc]
             /\ pc' = [pc EXCEPT ![t] = "running"]
             /\ UNCHANGED doneQ
        ELSE /\ res' = [res EXCEPT ![t] = f.res]
             /\ excAtt' = [excAtt EXCEPT ![t] = f.exc]
             /\ pc' = [pc EXCEPT ![t] = "done"]
             /\ doneQ' = IF cpc = "iter" THEN Append(doneQ, t) ELSE doneQ

\* A pool thread takes the oldest queued work item (lines 186-194), or the
\* retry decorator calls the body again; the body runs up to the end of
\* SSHClient.__enter__ (lines 91-106).  A failure of the credentials
\* lookup or of connect() goes to the except clauses; __exit__ does not
\* run when __enter__ raised.
BeginAttempt(t) ==
    /\ \/ pc[t] = "running"
       \/ /\ pc[t] = "queued"
          /\ \A u \in Queued : t <= u
          /\ worker_available(Cardinality(InFlight), maxw)
    /\ tries' = [tries EXCEPT ![t] = @ + 1]
    /\ LET r0 == Resultado(t, DESCONHECIDO, 0, NoErro)
           ce == get_credentials(credsOk)
           c == connect(SSHClient_init(TaskIp(t), EngineCredentials.user,
                                       EngineCredentials.password,
                                       EngineCredentials.port),
                        dev[t], knownHosts)
       IN  IF ce # NoExc
           THEN /\ EndAttempt(t, r0, ce, tries[t] + 1)
                /\ UNCHANGED <<sess, attempts>>
           ELSE /\ sess' = [sess EXCEPT ![t] = c.s]
                /\ attempts' = [attempts EXCEPT ![t] = @ + 1]
                /\ IF c.exc # NoExc
                   THEN EndAttempt(t, r0, c.exc, tries[t] + 1)
                   ELSE /\ res' = [res EXCEPT ![t] = r0]
                        /\ excAtt' = [excAtt EXCEPT ![t] = NoExc]
                        /\ pc' = [pc EXCEPT ![t] = "inwith"]
                        /\ UNCHANGED doneQ
    /\ UNCHANGED <<credsOk, maxw, ntasks, dev, snap, yielded, resultados,
                   falhas_consecutivas, cpc, raisedExc, late, knownHosts, cli,
                   progresso, objs, cmdIn, cmdOut, nota>>

\* The rest of the with block once execute_safe_command has ended with x
\* (lines 108-117), then SSHClient.__exit__, then the end of the attempt.
EndWith(t, x) ==
    LET p == IF x.exc # NoExc THEN [res |-> res[t], exc |-> x.exc]
             ELSE parse_output(res[t], x.output)
    IN  /\ sess' = [sess EXCEPT ![t] = close(x.s, dev[t].closefail)]
        /\ EndAttempt(t, p.res, p.exc, tries[t])

\* A with block that issues the command a second time on the same session.
Execute_Twice(t) ==
    /\ pc[t] = "inwith"
    /\ LET x1 == execute_safe_command(sess[t], WSTALIST, <<MacFilter>>, dev[t])
           x == execute_safe_command(x1.s, WSTALIST, <<MacFilter>>, dev[t])
       IN  IF dev[t].kind = "hang" /\ x.exc = NoExc
           THEN /\ sess' = [sess EXCEPT ![t] = x.s]
                /\ pc' = [pc EXCEPT ![t] = "blocked"]
                /\ UNCHANGED <<res, excAtt, doneQ>>
           ELSE EndWith(t, x)
    /\ UNCHANGED <<credsOk, maxw, ntasks, dev, attempts, tries, snap, yielded,
                   resultados, falhas_consecutivas, cpc, raisedExc, late, knownHosts, cli,
                   progresso, objs, cmdIn, cmdOut, nota>>

\* client.execute_safe_command(SSHCommandType.WSTALIST, filters=["mac"]):
\* the command is sent; a hanging device leaves the worker waiting for the
\* exit status (recv_exit_status has no timeout).
Execute(t) ==
    /\ pc[t] = "inwith"
    /\ LET x == execute_safe_command(sess[t], WSTALIST, <<MacFilter>>, dev[t])
       IN  IF dev[t].kind = "hang" /\ x.exc = NoExc
           THEN /\ sess' = [sess EXCEPT ![t] = x.s]
                /\ pc' = [pc EXCEPT ![t] = "blocked"]
                /\ UNCHANGED <<res, excAtt, doneQ>>
           ELSE EndWith(t, x)
    /\ UNCHANGED <<credsOk, maxw, ntasks, dev, attempts, tries, snap, yielded,
                   resultados, falhas_consecutivas, cpc, raisedExc, late, knownHosts, cli,
                   progresso, objs, cmdIn, cmdOut, nota>>

\* The exit status of a hanging command arrives at last.
Unblock(t) ==
    /\ pc[t] = "blocked"
    /\ EndWith(t, [s |-> sess[t], exc |-> NoExc, output |-> strip(dev[t].out),
                   msg |-> <<>>])
    /\ UNCHANGED <<credsOk, maxw, ntasks, dev, attempts, tries, snap, yielded,
                   resultados, falhas_consecutivas, cpc, raisedExc, late, knownHosts, cli,
                   progresso, objs, cmdIn, cmdOut, nota>>

(***************************************************************************)
(* Dispatcher: processar_em_lote, from the as_completed loop on.           *)
(***************************************************************************)
\* as_completed(futures, timeout=...) starts: the futures already finished
\* are yielded first, in no particular order.
BeginIter ==
    /\ cpc = "submitted"
    /\ snap' = {t \in Submitted : pc[t] = "done"}
    /\ cpc' = "iter"
    /\ UNCHANGED <<credsOk, maxw, ntasks, dev, pc, sess, attempts, tries, res, excAtt,
                   doneQ, yielded, resultados, falhas_consecutivas, raisedExc,
                   late, knownHosts, cli,
                   progresso, objs, cmdIn, cmdOut, nota>>

\* What one iteration appends and does to the counter for the future of
\* task t (lines 200-231).
collect(t, r, e, falhas) ==
    IF e = NoExc
    THEN [res |-> r, falhas |-> 0]
    ELSE IF IsA(e, "TimeoutError")
    THEN [res |-> Resultado(t, TIMEOUT, 0, "Timeout na execucao"), falhas |-> falhas + 1]
    ELSE [res |-> Resultado(t, ERRO, 0, NoteOf(e)), falhas |-> falhas + 1]

\* A collection that records each Result twice.
appended_Twice(rs, r) == Append(Append(rs, r), r)

\* A collection that puts the newest Result first.
appended_Prepended(rs, r) == <<r>> \o rs

\* A collection that keeps the Online Results only.
appended_OnlineOnly(rs, r) == IF r.status = ONLINE THEN Append(rs, r) ELSE rs

\* resultados.append(...) (lines 202, 209, 222).
appended(rs, r) == Append(rs, r)

\* One iteration of the for loop (lines 197-240) on the next completed
\* future; the breaker cancels the queued work items and leaves the loop.
Consume(t) ==
    /\ cpc = "iter"
    /\ \/ t \in snap
       \/ snap = {} /\ doneQ # <<>> /\ t = Head(doneQ)
    /\ LET c == collect(t, res[t], excAtt[t], falhas_consecutivas)
           trip == c.falhas >= CIRCUIT_BREAKER_THRESHOLD
       IN  /\ resultados' = appended(resultados, c.res)
           /\ falhas_consecutivas' = c.falhas
           /\ yielded' = yielded \cup {t}
           /\ pc' = IF trip
                    THEN [u \in AllTasks |-> IF pc[u] = "queued" THEN "cancelled" ELSE pc[u]]
                    ELSE pc
           /\ cpc' = IF trip \/ yielded' = Submitted THEN "join" ELSE "iter"
    /\ snap' = snap \ {t}
    /\ doneQ' = IF t \in snap THEN doneQ ELSE Tail(doneQ)
    /\ UNCHANGED <<credsOk, maxw, ntasks, dev, sess, attempts, tries, res, excAtt,
                   raisedExc, late, knownHosts, cli,
                   progresso, objs, cmdIn, cmdOut, nota>>

\* as_completed's deadline (timeout = self._timeout * 3) passes while a
\* worker waits on a hanging device: the iterator raises TimeoutError out
\* of the for statement, outside the try of the loop body.
Expire ==
    /\ cpc = "iter"
    /\ snap = {}
    /\ yielded # Submitted
    /\ \E t \in Submitted : pc[t] = "blocked"
    /\ raisedExc' = "TimeoutError"
    /\ late' = Unfinished
    /\ cpc' = "join"
    /\ UNCHANGED <<credsOk, maxw, ntasks, dev, pc, sess, attempts, tries, res, excAtt,
                   snap, doneQ, yielded, resultados, falhas_consecutivas, knownHosts, cli,
                   progresso, objs, cmdIn, cmdOut, nota>>

\* An executor left without joining its threads (shutdown(wait=False)).
Leave_NoWait ==
    /\ cpc = "join"
    /\ cpc' = IF raisedExc = NoExc THEN "returned" ELSE "raised"
    /\ UNCHANGED <<credsOk, maxw, ntasks, dev, pc, sess, attempts, tries, res, excAtt,
                   snap, doneQ, yielded, resultados, falhas_consecutivas, raisedExc,
                   late, knownHosts, cli,
                   progresso, objs, cmdIn, cmdOut, nota>>

\* The with block of the executor ends: shutdown(wait=True) returns once
\* no work item is queued or running; then the function returns
\* resultados (line 243) or the pending exception propagates.
Leave ==
    /\ cpc = "join"
    /\ Unfinished = {}
    /\ cpc' = IF raisedExc = NoExc THEN "returned" ELSE "raised"
    /\ UNCHANGED <<credsOk, maxw, ntasks, dev, pc, sess, attempts, tries, res, excAtt,
                   snap, doneQ, yielded, resultados, falhas_consecutivas, raisedExc,
                   late, knownHosts, cli,
                   progresso, objs, cmdIn, cmdOut, nota>>

(***************************************************************************)
(* Specifications.                                                         *)
(***************************************************************************)
NoCmd == [cmd_type |-> WSTALIST, filters |-> <<>>]
NoBuilt == [exc |-> NoExc, cmd |-> <<>>, called |-> FALSE]

IdleDevice == Device("ok", <<"7">>, FALSE, "known", <<>>)
NoConfig == [SSH_USER |-> "None", SSH_PASSWORD |-> "None", SSH_PORT |-> "None"]
NoResultArgs == [ipIsStr |-> TRUE, clientesIsInt |-> TRUE, clientes |-> 0]
NoObjs == [results |-> {}, before |-> {}, rendered |-> {}, calls |-> 0,
           fn |-> "none", exc |-> NoExc, rarg |-> NoResultArgs, cfg |-> NoConfig,
           engines |-> 0, contacted |-> FALSE]
NoNota == [made |-> FALSE, by |-> "none", exc |-> NoExc, msg |-> <<>>,
           status |-> DESCONHECIDO, erro |-> NoErro, text |-> <<>>]
NoCli == [s |-> NewSession, d |-> IdleDevice, connects |-> 0, calls |-> 0,
          op |-> "none", exc |-> NoExc, output |-> <<>>, msg |-> <<>>,
          pre |-> NewSession, filters |-> <<>>]

InitRun(n) ==
    /\ ntasks = n
    /\ pc = [t \in AllTasks |-> IF t <= n THEN "queued" ELSE "absent"]
    /\ sess = [t \in AllTasks |-> NewSession]
    /\ attempts = [t \in AllTasks |-> 0]
    /\ tries = [t \in AllTasks |-> 0]
    /\ res = [t \in AllTasks |-> Resultado(t, DESCONHECIDO, 0, NoErro)]
    /\ excAtt = [t \in AllTasks |-> NoExc]
    /\ snap = {}
    /\ doneQ = <<>>
    /\ yielded = {}
    /\ resultados = <<>>
    /\ falhas_consecutivas = 0
    /\ cpc = "submitted"
    /\ raisedExc = NoExc
    /\ late = {}
    /\ progresso = <<>>

\* A run of processar_em_lote on a list of 1..NumTasks tasks, every task
\* submitted to the pool, against devices of every behaviour.  The run is
\* explored both for an engine whose credentials lookup returns and for one
\* whose lookup raises.
Init ==
    /\ credsOk \in BOOLEAN
    /\ knownHosts \in BOOLEAN
    /\ cli = NoCli
    /\ objs = NoObjs
    /\ nota = NoNota
    /\ maxw \in 1..MaxWorkers
    /\ \E n \in 1..NumTasks :
          /\ InitRun(n)
          /\ \E d \in [1..n -> Behaviours] :
                dev = [t \in AllTasks |-> IF t <= n THEN d[t] ELSE IdleDevice]
    /\ cmdIn = NoCmd
    /\ cmdOut = NoBuilt

Next ==
    \/ \E t \in AllTasks : BeginAttempt(t)
    \/ \E t \in AllTasks : Execute(t)
    \/ \E t \in AllTasks : Unblock(t)
    \/ BeginIter
    \/ \E t \in AllTasks : Consume(t)
    \/ Expire
    \/ Leave

Spec == Init /\ [][Next]_vars

\* The same run with workers and dispatcher scheduled fairly and every
\* session operation ending: a step that can be taken is eventually taken.
SpecLive == Init /\ [][Next]_vars /\ WF_vars(Next)

\* A run on a fleet of FleetSize tasks, long enough for the circuit
\* breaker's threshold: the first nfail devices refuse the probe, the
\* others answer "7", and the last one may hang first.
Refusing == Device("refused", <<>>, FALSE, "known", <<>>)
Hanging == Device("hang", <<"7">>, FALSE, "known", <<>>)

FleetDevices(nfail, lastHangs) ==
    [t \in AllTasks |->
        IF t <= nfail THEN Refusing
        ELSE IF t = FleetSize /\ lastHangs THEN Hanging
        ELSE IdleDevice]

InitFleet ==
    /\ credsOk = TRUE
    /\ knownHosts = TRUE
    /\ cli = NoCli
    /\ objs = NoObjs
    /\ nota = NoNota
    /\ maxw \in 1..MaxWorkers
    /\ InitRun(FleetSize)
    /\ \E nfail \in 0..FleetSize, lastHangs \in BOOLEAN : dev = FleetDevices(nfail, lastHangs)
    /\ cmdIn = NoCmd
    /\ cmdOut = NoBuilt

SpecFleet == InitFleet /\ [][Next]_vars

\* The command builder called on its own with every command kind and every
\* filter list of at most MaxFilters strings of at most MaxFilterLen
\* characters.
RECURSIVE SeqsUpTo(_, _)
SeqsUpTo(S, n) ==
    IF n = 0 THEN {<<>>}
    ELSE LET shorter == SeqsUpTo(S, n - 1)
         IN  shorter \cup {Append(q, x) : q \in shorter, x \in S}

FilterStrings == SeqsUpTo(FilterChars, MaxFilterLen)
FilterLists == SeqsUpTo(FilterStrings, MaxFilters)

InitCmd ==
    /\ credsOk = TRUE
    /\ knownHosts = TRUE
    /\ cli = NoCli
    /\ objs = NoObjs
    /\ nota = NoNota
    /\ maxw = 1
    /\ InitRun(0)
    /\ dev = [t \in AllTasks |-> IdleDevice]
    /\ cmdIn \in [cmd_type : SSHCommandType, filters : FilterLists]
    /\ cmdOut = NoBuilt

\* self._build_safe_command(cmd_type, filters)
BuildCommand ==
    /\ ~cmdOut.called
    /\ LET b == build_safe_command(cmdIn.cmd_type, cmdIn.filters)
       IN  cmdOut' = [exc |-> b.exc, cmd |-> b.cmd, called |-> TRUE]
    /\ UNCHANGED <<cmdIn, engineVars>>

NextCmd == BuildCommand

SpecCmd == InitCmd /\ [][NextCmd]_vars

(***************************************************************************)
(* An SSHClient object used directly: a caller makes up to MaxCalls calls  *)
(* of connect(), execute_safe_command() and close() on one object, against *)
(* one device.  cli records the object, the last call, what it raised and  *)
(* returned, and the object as it was before that call.                    *)
(***************************************************************************)
SessionDevices ==
    {d \in Behaviours : d.kind # "hang"}
    \cup {Device("cmdfail", <<>>, FALSE, "known", <<>>),
          Device("cmdfail", <<"7">>, FALSE, "known", <<" ", "\n">>),
          Device("ok", <<"7">>, FALSE, "mismatch", <<>>),
          Device("authfail", <<>>, FALSE, "unknown", <<>>)}

ExecFilters ==
    {<<>>, <<MacFilter>>, <<(<<";">>)>>, <<(<<"a", "\n">>)>>, <<MacFilter, (<<"7">>)>>}

InitSession ==
    /\ credsOk = TRUE
    /\ knownHosts \in BOOLEAN
    /\ maxw = 1
    /\ InitRun(0)
    /\ dev = [t \in AllTasks |-> IdleDevice]
    /\ cmdIn = NoCmd
    /\ cmdOut = NoBuilt
    /\ \E d \in SessionDevices : cli = [NoCli EXCEPT !.d = d]
    /\ objs = NoObjs
    /\ nota = NoNota

Called(op, x, output, msg) ==
    [cli EXCEPT !.s = x.s, !.calls = @ + 1, !.op = op, !.exc = x.exc,
                !.output = output, !.msg = msg, !.pre = cli.s,
                !.filters = <<>>]

\* client.connect()
CliConnect ==
    /\ cli.calls < MaxCalls
    /\ LET x == connect(cli.s, cli.d, knownHosts)
       IN  cli' = [Called("connect", x, <<>>, <<>>) EXCEPT !.connects = @ + 1]
    /\ UNCHANGED <<credsOk, maxw, ntasks, dev, pc, sess, attempts, tries, res,
                   excAtt, snap, doneQ, yielded, resultados,
                   falhas_consecutivas, cpc, raisedExc, late, knownHosts,
                   progresso, objs, cmdIn, cmdOut, nota>>

\* client.execute_safe_command(cmd_type, filters)
CliExecute ==
    /\ cli.calls < MaxCalls
    /\ \E cmd_type \in SSHCommandType, filters \in ExecFilters :
          LET x == execute_safe_command(cli.s, cmd_type, filters, cli.d)
          IN  cli' = [Called("execute", x, x.output, x.msg)
                         EXCEPT !.filters = filters]
    /\ UNCHANGED <<credsOk, maxw, ntasks, dev, pc, sess, attempts, tries, res,
                   excAtt, snap, doneQ, yielded, resultados,
                   falhas_consecutivas, cpc, raisedExc, late, knownHosts,
                   progresso, objs, cmdIn, cmdOut, nota>>

\* client.close()
CliClose ==
    /\ cli.calls < MaxCalls
    /\ cli' = Called("close", [s |-> close(cli.s, cli.d.closefail), exc |-> NoExc],
                     <<>>, <<>>)
    /\ UNCHANGED <<credsOk, maxw, ntasks, dev, pc, sess, attempts, tries, res,
                   excAtt, snap, doneQ, yielded, resultados,
                   falhas_consecutivas, cpc, raisedExc, late, knownHosts,
                   progresso, objs, cmdIn, cmdOut, nota>>

NextSession == CliConnect \/ CliExecute \/ CliClose

SpecSession == InitSession /\ [][NextSession]_vars

(***************************************************************************)
(* Constructors and string conversions called on their own: RadioResult,   *)
(* ProcessamentoEngine, repr of Credenciais and of the engine.  objs holds *)
(* the RadioResults that exist, the texts rendered, and the last call.     *)
(***************************************************************************)
ResultArgs == [ipIsStr : BOOLEAN, clientesIsInt : BOOLEAN,
               clientes : (0 - MaxClientes)..MaxClientes]

\* The dataclass __init__ with no __post_init__.
RadioResult_init_Unchecked(a) ==
    [exc |-> NoExc, made |-> {[status |-> ONLINE, clientes |-> a.clientes]}]

\* RadioResult(...): the dataclass __init__ followed by __post_init__; the
\* exception raised and the records created.
RadioResult_init(a) ==
    IF ~a.ipIsStr THEN [exc |-> "TypeError", made |-> {}]
    ELSE IF ~a.clientesIsInt THEN [exc |-> "TypeError", made |-> {}]
    ELSE IF a.clientes < 0 THEN [exc |-> "ValueError", made |-> {}]
    ELSE [exc |-> NoExc, made |-> {[status |-> ONLINE, clientes |-> a.clientes]}]

\* self._config.get(...) for SSH_USER, SSH_PASSWORD, SSH_PORT: "None" is a
\* missing key, "" an empty value.
Configs == [SSH_USER : {"None", "", "admin"}, SSH_PASSWORD : {"None", "", "s3cret"},
            SSH_PORT : {"None", "x"}]

\* The body of _get_credentials (lines 61-69).
get_credentials_body(cfg) ==
    IF cfg.SSH_PORT = "x" THEN "ValueError"
    ELSE IF cfg.SSH_USER \in {"None", ""} \/ cfg.SSH_PASSWORD \in {"None", ""}
    THEN "ValueError"
    ELSE NoExc

\* @dataclass with eq=True and frozen=False sets __hash__ to None.
EngineHashable == FALSE

\* The lru_cache wrapper of _get_credentials (line 50): it hashes the
\* arguments of the call, self, before the body runs.
cached_get_credentials(cfg) ==
    IF ~EngineHashable THEN "TypeError" ELSE get_credentials_body(cfg)

\* ProcessamentoEngine(config): __post_init__ (lines 41-48).
ProcessamentoEngine_init(cfg) ==
    LET e == cached_get_credentials(cfg)
    IN  IF e # NoExc /\ IsA(e, "Exception") THEN "ValueError" ELSE e

Creds == [usuario : {"admin", "root"}, senha : {"s3cret", "hunter2"}]

\* The __repr__ the dataclass would generate for Credenciais.
Credenciais_repr_Generated(c) ==
    <<"Credenciais(usuario=", c.usuario, ", senha=", c.senha, ")">>

\* Credenciais.__repr__ (also str(), no __str__ being defined).
Credenciais_repr(c) == <<"Credenciais(usuario=", "*****", ", senha=", "****", ")">>

\* The fields of ProcessamentoEngine (lines 36-39) with their repr flags.
EngineFields ==
    << [name |-> "_config", repr |-> FALSE], [name |-> "_timeout", repr |-> FALSE],
       [name |-> "_max_workers", repr |-> FALSE],
       [name |-> "_retry_attempts", repr |-> FALSE] >>

\* The __repr__ a dataclass generates: the fields whose repr flag is set.
RECURSIVE ShownFields(_, _)
ShownFields(fields, values) ==
    IF fields = <<>> THEN <<>>
    ELSE (IF Head(fields).repr THEN <<Head(fields).name, "=", Head(values)>> ELSE <<>>)
         \o ShownFields(Tail(fields), Tail(values))

dataclass_repr(cls, fields, values) == <<cls, "(">> \o ShownFields(fields, values) \o <<")">>

EngineValues(c) == <<c.usuario, "12", "10", c.senha>>

InitData ==
    /\ credsOk = TRUE
    /\ knownHosts = TRUE
    /\ cli = NoCli
    /\ maxw = 1
    /\ InitRun(0)
    /\ dev = [t \in AllTasks |-> IdleDevice]
    /\ cmdIn = NoCmd
    /\ cmdOut = NoBuilt
    /\ objs = NoObjs
    /\ nota = NoNota

DataUnchanged ==
    UNCHANGED <<credsOk, maxw, ntasks, dev, pc, sess, attempts, tries, res,
                excAtt, snap, doneQ, yielded, resultados, falhas_consecutivas,
                cpc, raisedExc, late, knownHosts, cli, progresso, cmdIn, cmdOut, nota>>

\* RadioResult(ip, torre, status, clientes)
NewRadioResult ==
    /\ objs.calls < MaxObjCalls
    /\ \E a \in ResultArgs :
          LET x == RadioResult_init(a)
          IN  objs' = [objs EXCEPT !.calls = @ + 1, !.fn = "RadioResult", !.rarg = a,
                                   !.exc = x.exc, !.before = objs.results,
                                   !.results = @ \cup x.made]
    /\ DataUnchanged

\* ProcessamentoEngine(config)
NewEngine ==
    /\ objs.calls < MaxObjCalls
    /\ \E cfg \in Configs :
          LET e == ProcessamentoEngine_init(cfg)
          IN  objs' = [objs EXCEPT !.calls = @ + 1, !.fn = "ProcessamentoEngine",
                                   !.cfg = cfg, !.exc = e,
                                   !.engines = IF e = NoExc THEN @ + 1 ELSE @]
    /\ DataUnchanged

\* repr(Credenciais(usuario, senha))
ReprCredenciais ==
    /\ objs.calls < MaxObjCalls
    /\ \E c \in Creds :
          objs' = [objs EXCEPT !.calls = @ + 1, !.fn = "repr", !.exc = NoExc,
                               !.rendered = @ \cup {[cls |-> "Credenciais", of |-> c,
                                                     text |-> Credenciais_repr(c)]}]
    /\ DataUnchanged

\* repr(engine), for an engine object holding the config and credentials c
ReprEngine ==
    /\ objs.calls < MaxObjCalls
    /\ \E c \in Creds :
          objs' = [objs EXCEPT !.calls = @ + 1, !.fn = "repr", !.exc = NoExc,
                               !.rendered = @ \cup
                                   {[cls |-> "ProcessamentoEngine", of |-> c,
                                     text |-> dataclass_repr("ProcessamentoEngine",
                                                             EngineFields, EngineValues(c))]}]
    /\ DataUnchanged

NextData == NewRadioResult \/ NewEngine \/ ReprCredenciais \/ ReprEngine

SpecData == InitData /\ [][NextData]_vars

(***************************************************************************)
(* The note of a Result made from an exception, on its own: an exception   *)
(* of class exc whose message has 0..MaxMsgLen characters reaches the      *)
(* except clauses of _processar_com_retry or of the dispatcher's loop.     *)
(* The characters of a message are numbered, so that every one differs.    *)
(***************************************************************************)
RaisedKinds == {"AuthenticationError", "DeviceOfflineError", "SSHExecutionError",
                "TimeoutError", "socket.timeout", "ConnectionError", "ValueError",
                "Exception"}
Message(n) == [i \in 1..n |-> i]

InitNote ==
    /\ credsOk = TRUE
    /\ knownHosts = TRUE
    /\ cli = NoCli
    /\ maxw = 1
    /\ InitRun(0)
    /\ dev = [t \in AllTasks |-> IdleDevice]
    /\ cmdIn = NoCmd
    /\ cmdOut = NoBuilt
    /\ objs = NoObjs
    /\ nota = NoNota

Noted(by, e, m, r) ==
    [made |-> TRUE, by |-> by, exc |-> e, msg |-> m, status |-> r.status,
     erro |-> r.erro, text |-> IF r.erro \in NoteTokens THEN note(m) ELSE <<>>]

\* The except clauses of _processar_com_retry on exception e with message m.
NoteWorker ==
    /\ ~nota.made
    /\ \E e \in RaisedKinds, n \in 0..MaxMsgLen :
          nota' = Noted("worker", e, Message(n),
                        engine_except(Resultado(1, DESCONHECIDO, 0, NoErro), e).res)
    /\ UNCHANGED <<engineVars_NoNota, cmdIn, cmdOut>>

\* The except clauses of the dispatcher's loop on exception e with message m.
NoteDispatcher ==
    /\ ~nota.made
    /\ \E e \in RaisedKinds, n \in 0..MaxMsgLen :
          nota' = Noted("dispatcher", e, Message(n),
                        collect(1, Resultado(1, DESCONHECIDO, 0, NoErro), e, 0).res)
    /\ UNCHANGED <<engineVars_NoNota, cmdIn, cmdOut>>

NextNote == NoteWorker \/ NoteDispatcher

SpecNote == InitNote /\ [][NextNote]_vars

(***************************************************************************)
(* Properties.                                                             *)
(***************************************************************************)
Prompt(t) == dev[t].kind # "hang"
NonSuccess(r) == r.status # ONLINE

\* C1: a run on a list of one valid task, whose device is online, refuses
\* the probe, rejects the credentials, fails the command or provokes an
\* unexpected fault, does not raise, and what it returns is exactly one
\* Result carrying the ip, nome and torre of that task.
C1_OneResultForOneTask ==
    (ntasks = 1 /\ Prompt(1)) =>
        /\ raisedExc = NoExc
        /\ cpc # "raised"
        /\ cpc = "returned" =>
              /\ Len(resultados) = 1
              /\ resultados[1].ip = TaskIp(1)
              /\ resultados[1].nome = TaskNome(1)
              /\ resultados[1].torre = TaskTorre(1)

C1_Witness ==
    /\ ntasks = 1
    /\ cpc = "returned"
    /\ dev[1].kind = "authfail"
    /\ Len(resultados) = 1
    /\ resultados[1].status = ERRO_AUTH

\* C2: a task whose every session attempt fails with a retryable failure
\* (the handshake ends in a socket timeout, DeviceOfflineError) has had
\* exactly RETRY_ATTEMPTS session attempts when processar_unidade returns.
C2_RetryBound ==
    \A t \in Submitted :
        (credsOk /\ pc[t] = "done" /\ dev[t].kind = "sockerr") => attempts[t] = RETRY_ATTEMPTS

\* C3: in the list processar_em_lote has collected, a run of
\* CIRCUIT_BREAKER_THRESHOLD consecutive non-Online Results can only be the
\* end of the list.
C3_BreakerEndsRun ==
    \A i \in 1..Len(resultados) :
        ( /\ i >= CIRCUIT_BREAKER_THRESHOLD
          /\ \A j \in (i - CIRCUIT_BREAKER_THRESHOLD + 1)..i : NonSuccess(resultados[j]) )
        => i = Len(resultados)

\* C4: the builder raises, and returns no command, for every filter list
\* that holds an empty string or a string with a character outside
\* [A-Za-z0-9_-].
OnlyAllowed(f) == f # <<>> /\ \A i \in 1..Len(f) : f[i] \in AllowedChars

C4_InjectionResistance ==
    (cmdOut.called /\ \E i \in 1..Len(cmdIn.filters) : ~OnlyAllowed(cmdIn.filters[i]))
        => (cmdOut.exc # NoExc /\ cmdOut.cmd = <<>>)

\* C5: when the TCP probe fails, connect() raises DeviceOfflineError and no
\* other error, no handshake is attempted and the session is never
\* Connected.
C5_ProbeFailureIsOffline ==
    \A t \in Submitted :
        (attempts[t] > 0 /\ dev[t].kind = "refused") =>
            /\ sess[t].connectExc = "DeviceOfflineError"
            /\ ~sess[t].created
            /\ ~sess[t].connected

\* C6: a task whose probe is refused on every attempt ends with a Result
\* of status Offline and clientes = 0.
C6_RefusedYieldsOffline ==
    \A t \in Submitted :
        (credsOk /\ pc[t] = "done" /\ dev[t].kind = "refused") =>
            (res[t].status = OFFLINE /\ res[t].clientes = 0)

\* C7: when a session attempt has returned to the retry policy, the
\* paramiko client it created has been closed and released: close() ran
\* and self.client is None.
AttemptOver(t) == pc[t] = "done" \/ (pc[t] = "running" /\ tries[t] > 0)

C7_GuaranteedTeardown ==
    \A t \in Submitted :
        (AttemptOver(t) /\ sess[t].created) => (sess[t].closeRan /\ ~sess[t].client)

\* C8: for every task whose worker had not finished when the wait timeout
\* passed, the dispatcher has appended a Result of status Timeout with
\* clientes = 0, and the run goes on to return its Results.
C8_TimeoutSynthesized ==
    \A t \in late :
        /\ \E i \in 1..Len(resultados) :
              /\ resultados[i].ip = TaskIp(t)
              /\ resultados[i].status = TIMEOUT
              /\ resultados[i].clientes = 0
        /\ cpc # "raised"

\* C9: no exception leaves processar_em_lote, whatever the devices do.
C9_RunNeverRaises == raisedExc = NoExc /\ cpc # "raised"

\* C10: processar_unidade does not raise: the future of every finished
\* work item holds a Result, of that task and with a final status, never
\* an exception, whichever way the session failed.
C10_UnidadeNeverRaises ==
    \A t \in Submitted :
        pc[t] = "done" =>
            /\ excAtt[t] = NoExc
            /\ res[t].ip = TaskIp(t)
            /\ res[t].status \in StatusRadio \ {DESCONHECIDO}

C10_Witness ==
    /\ credsOk
    /\ \E t, u \in Submitted :
          /\ pc[t] = "done" /\ dev[t].kind = "sockerr" /\ res[t].status = OFFLINE
          /\ pc[u] = "done" /\ dev[u].kind = "cmdfail" /\ res[u].status = ERRO_SSH

\* C11: a task whose session attempt fails with AuthenticationError or
\* SSHExecutionError (credentials rejected, protocol error, host key
\* rejected, non-zero exit status) has exactly one session attempt: once
\* that attempt is over the work item is finished, and no second session
\* is opened.
NonRetryableFailure(t) ==
    \/ sess[t].connectExc \in {"AuthenticationError", "SSHExecutionError"}
    \/ (dev[t].kind = "cmdfail" /\ sess[t].sent # <<>>)

C11_NoRetryOnFinalFailure ==
    \A t \in Submitted :
        (attempts[t] > 0 /\ NonRetryableFailure(t)) =>
            /\ attempts[t] = 1
            /\ AttemptOver(t) => pc[t] = "done"

C11_Witness ==
    \E t, u \in Submitted :
        /\ pc[t] = "done" /\ dev[t].kind = "authfail" /\ attempts[t] = 1
        /\ sess[t].connectExc = "AuthenticationError"
        /\ pc[u] = "done" /\ dev[u].kind = "cmdfail" /\ attempts[u] = 1
        /\ sess[u].sent # <<>>

\* C12: a task whose attempts all failed with a retryable failure (the
\* handshake ends in a socket timeout, DeviceOfflineError) ends with the
\* Result of processar_unidade's fallback: status Erro, clientes = 0 and
\* the note "Falha apos multiplas tentativas".
C12_ExhaustionYieldsErro ==
    \A t \in Submitted :
        (credsOk /\ pc[t] = "done" /\ dev[t].kind = "sockerr") =>
            /\ res[t].status = ERRO
            /\ res[t].clientes = 0
            /\ res[t].erro = "Falha apos multiplas tentativas"

\* C13: from the moment the Results collected end in
\* CIRCUIT_BREAKER_THRESHOLD consecutive failures, no further Result is
\* appended and no task that had not started opens a session.
RECURSIVE TrailingFailures(_)
TrailingFailures(rs) ==
    IF rs = <<>> \/ ~NonSuccess(rs[Len(rs)]) THEN 0
    ELSE 1 + TrailingFailures(SubSeq(rs, 1, Len(rs) - 1))

C13_TripStopsRun ==
    [][TrailingFailures(resultados) >= CIRCUIT_BREAKER_THRESHOLD =>
          /\ resultados' = resultados
          /\ \A t \in Submitted : attempts[t] = 0 => attempts'[t] = 0]_vars

\* C14: when processar_em_lote returns fewer Results than tasks, the
\* breaker tripped in that run; when the breaker did not trip it returns
\* exactly one Result per task; and every Result collected is the Result
\* of a task whose work item ran.
Tripped == falhas_consecutivas >= CIRCUIT_BREAKER_THRESHOLD

C14_ShortfallMeansTripped ==
    /\ cpc = "returned" =>
          /\ Len(resultados) < ntasks => Tripped
          /\ ~Tripped => Len(resultados) = ntasks
    /\ \A i \in 1..Len(resultados) :
          \E t \in Submitted : resultados[i].ip = TaskIp(t) /\ pc[t] = "done"

C14_Witness ==
    /\ cpc = "returned"
    /\ ~Tripped
    /\ ntasks = FleetSize
    /\ Len(resultados) = ntasks
    /\ \E i \in 1..Len(resultados) : NonSuccess(resultados[i])
    /\ \E i \in 1..Len(resultados) : ~NonSuccess(resultados[i])

\* C15: at every moment of a run, the number of tasks whose check is in
\* progress (the work item has started and has not finished, retries
\* included) is at most max_workers.
C15_BoundedParallelism == Cardinality(InFlight) <= maxw

C15_Witness ==
    /\ Cardinality(InFlight) = maxw
    /\ Queued # {}
    /\ \E t \in InFlight : pc[t] = "inwith"

\* C16 (as stated): after the probe has passed, a credential rejection
\* makes connect() raise AuthenticationError and every other negotiation
\* failure (protocol error, socket error or timeout during the handshake,
\* host key rejected) makes it raise SSHExecutionError; the session is not
\* Connected.
Negotiated == cli.op = "connect" /\ is_port_open(cli.d)
KeyRejected == knownHosts /\ cli.d.hostkey # "known"
CredentialsRejected == cli.d.kind = "authfail" /\ ~KeyRejected
ProtocolFailure == cli.d.kind = "proto" \/ (KeyRejected /\ cli.d.kind # "sockerr")
SocketFailure == cli.d.kind = "sockerr"

C16_NegotiationFailures_Stated ==
    Negotiated =>
        /\ CredentialsRejected =>
              (cli.exc = "AuthenticationError" /\ ~cli.s.connected)
        /\ (ProtocolFailure \/ SocketFailure) =>
              (cli.exc = "SSHExecutionError" /\ ~cli.s.connected)

\* C16 (amended): after the probe has passed, a credential rejection makes
\* connect() raise AuthenticationError, a socket error or socket timeout
\* during the handshake makes it raise DeviceOfflineError, and every other
\* negotiation failure (protocol error, host key rejected) makes it raise
\* SSHExecutionError; in all three cases the session is not Connected.
C16_NegotiationFailures ==
    Negotiated =>
        /\ CredentialsRejected =>
              (cli.exc = "AuthenticationError" /\ ~cli.s.connected)
        /\ SocketFailure =>
              (cli.exc = "DeviceOfflineError" /\ ~cli.s.connected)
        /\ ProtocolFailure =>
              (cli.exc = "SSHExecutionError" /\ ~cli.s.connected)

C16_Witness ==
    /\ Negotiated
    /\ CredentialsRejected
    /\ cli.exc = "AuthenticationError"
    /\ cli.s.created
    /\ ~cli.s.connected

\* C17: when a command that was sent ends with a non-zero exit status,
\* execute_safe_command raises SSHExecutionError whose message ends with
\* the trimmed standard error, or with the exit status when that is
\* empty, whatever the standard output; the session stays Connected with
\* its client, and nothing of it changes but the list of commands sent.
CommandSent == cli.op = "execute" /\ Len(cli.s.sent) = Len(cli.pre.sent) + 1
EndsWith(m, e) == Len(m) >= Len(e) /\ SubSeq(m, Len(m) - Len(e) + 1, Len(m)) = e

C17_NonZeroExitRaises ==
    (CommandSent /\ ExitStatus(cli.d) # 0) =>
        /\ cli.exc = "SSHExecutionError"
        /\ LET e == strip(cli.d.err)
           IN  IF e # <<>> THEN EndsWith(cli.msg, e) ELSE EndsWith(cli.msg, <<"1">>)
        /\ cli.s.connected /\ cli.s.client
        /\ [cli.s EXCEPT !.sent = cli.pre.sent] = cli.pre

C17_Witness ==
    /\ CommandSent
    /\ ExitStatus(cli.d) # 0
    /\ cli.d.out # <<>>
    /\ cli.exc = "SSHExecutionError"
    /\ cli.s.connected

\* C18: a command is sent only by execute_safe_command on a session that
\* is Connected (its own connect() passed the probe and authenticated, and
\* it has not been closed); on a session that never connected, whose
\* connect() failed or that has been closed, execute_safe_command raises
\* ConnectionError, sends nothing and leaves the session as it was.
NeverConnected(s) == ~s.created /\ s.connectExc = NoExc /\ ~s.connected
ConnectFailed(s) == s.connectExc # NoExc
Closed(s) == s.closeRan /\ ~s.client

C19_HostIdentity ==
    /\ (knownHosts /\ cli.d.hostkey \in {"unknown", "mismatch"}) => ~cli.s.connected
    /\ (cli.s.connected /\ cli.d.hostkey # "known") =>
          (~knownHosts /\ cli.s.policy = "AutoAddPolicy" /\ cli.s.warned)
    /\ (cli.s.created /\ ~knownHosts) => cli.s.warned
    /\ (cli.s.created /\ knownHosts) => (cli.s.policy = "RejectPolicy" /\ ~cli.s.warned)

C19_Witness ==
    /\ cli.op = "connect"
    /\ ~knownHosts
    /\ cli.d.hostkey = "unknown"
    /\ cli.s.connected
    /\ cli.s.warned

\* C20: a task whose session sent the command and got exit status 0 and
\* a standard output that, without its surrounding whitespace, is a
\* non-empty string of decimal digits denoting n, ends with a Result of
\* status Online, clientes = n and no error note.
Trimmed(out) ==
    LET keep == {i \in 1..Len(out) : out[i] \notin Whitespace}
    IN  IF keep = {} THEN <<>>
        ELSE SubSeq(out, CHOOSE i \in keep : \A j \in keep : i <= j,
                         CHOOSE i \in keep : \A j \in keep : i >= j)
DecimalDigits(d) == d # <<>> /\ \A i \in 1..Len(d) : d[i] \in AsciiDigits

RECURSIVE Denoted(_)
Denoted(d) ==
    IF d = <<>> THEN 0
    ELSE 10 * Denoted(SubSeq(d, 1, Len(d) - 1)) + DigitVal(d[Len(d)])

C20_DigitsYieldOnline ==
    \A t \in Submitted :
        ( /\ pc[t] = "done"
          /\ sess[t].sent # <<>>
          /\ ExitStatus(dev[t]) = 0
          /\ DecimalDigits(Trimmed(dev[t].out)) ) =>
            /\ res[t].status = ONLINE
            /\ res[t].clientes = Denoted(Trimmed(dev[t].out))
            /\ res[t].erro = NoErro

C20_Witness ==
    \E t, u \in Submitted :
        /\ pc[t] = "done" /\ dev[t].out = <<" ", "1", "0", "\n">>
        /\ res[t].status = ONLINE /\ res[t].clientes = 10
        /\ pc[u] = "done" /\ dev[u].out = <<"7">> /\ sess[u].sent # <<>>
        /\ res[u].status = ONLINE /\ res[u].clientes = 7

\* C21 (as stated): a task whose session sent the command and got exit
\* status 0 and a standard output that, trimmed, is not a string of
\* decimal digits (empty output included) ends with a Result of status
\* "Erro SSH" (ExecError), clientes = 0 and the note "Output invalido",
\* and its work item raises nothing.
GotOtherOutput(t) ==
    /\ pc[t] = "done"
    /\ sess[t].sent # <<>>
    /\ ExitStatus(dev[t]) = 0
    /\ ~DecimalDigits(Trimmed(dev[t].out))

C21_OtherOutput_Stated ==
    \A t \in Submitted :
        GotOtherOutput(t) =>
            /\ res[t].status = ERRO_SSH
            /\ res[t].clientes = 0
            /\ res[t].erro = "Output invalido"
            /\ excAtt[t] = NoExc

\* C21 (amended): such a task ends with a Result of status "Erro" (Error)
\* and clientes = 0, and its work item raises nothing; the note is
\* "Output invalido" when the trimmed output is empty or holds a character
\* that str.isdigit rejects.
IsdigitRejects(out) == out = <<>> \/ \E i \in 1..Len(out) : out[i] \notin UnicodeDigits

C21_OtherOutput ==
    \A t \in Submitted :
        GotOtherOutput(t) =>
            /\ res[t].status = ERRO
            /\ res[t].clientes = 0
            /\ excAtt[t] = NoExc
            /\ IsdigitRejects(Trimmed(dev[t].out)) => res[t].erro = "Output invalido"

C21_Witness ==
    \E t, u \in Submitted :
        /\ GotOtherOutput(t) /\ dev[t].out = <<"e", "r", "r">>
        /\ res[t].status = ERRO /\ res[t].erro = "Output invalido"
        /\ GotOtherOutput(u) /\ dev[u].out = <<>>
        /\ res[u].status = ERRO

\* C22: every command execute_safe_command has sent starts with one of
\* the three base commands and holds, after it, nothing but pipes into
\* grep -c '"<f>' segments whose f is made of characters of
\* [A-Za-z0-9_-].
SegmentText == {" | ", "grep -c '\"", "'"} \cup AllowedChars

AllowListed(cmd) ==
    /\ cmd # <<>>
    /\ cmd[1] \in SSHCommandType
    /\ \A i \in 2..Len(cmd) : cmd[i] \in SegmentText

C22_OnlyAllowListedCommands ==
    \A i \in 1..Len(cli.s.sent) : AllowListed(cli.s.sent[i])

\* C23: every Result the engine has produced, the dict a work item
\* returned as well as each one the dispatcher collected, has
\* clientes >= 0, and clientes = 0 unless its status is Online.
CountMeaningful(r) == r.clientes >= 0 /\ (r.status # ONLINE => r.clientes = 0)

C23_CountOnlyWhenOnline ==
    /\ \A t \in Submitted : pc[t] = "done" => CountMeaningful(res[t])
    /\ \A i \in 1..Len(resultados) : CountMeaningful(resultados[i])

C23_Witness ==
    \E i, j \in 1..Len(resultados) :
        /\ resultados[i].status = ONLINE /\ resultados[i].clientes = 10
        /\ resultados[j].status = ERRO_SSH /\ resultados[j].clientes = 0

\* C24: constructing a RadioResult with a negative integer clientes
\* raises ValueError and creates no record, and no RadioResult that
\* exists has clientes < 0.
NegativeCount ==
    /\ objs.fn = "RadioResult"
    /\ objs.rarg.ipIsStr /\ objs.rarg.clientesIsInt
    /\ objs.rarg.clientes < 0

C24_NoNegativeCount ==
    /\ NegativeCount => (objs.exc = "ValueError" /\ objs.results = objs.before)
    /\ \A r \in objs.results : r.clientes >= 0

C24_Witness ==
    /\ NegativeCount
    /\ objs.exc = "ValueError"
    /\ objs.results # {}
    /\ objs.results = objs.before

\* C25: ProcessamentoEngine(config) contacts no device; it raises
\* ValueError when SSH_USER or SSH_PASSWORD is missing or empty, and with
\* both present (and a usable port) it raises nothing.
CredentialsPresent(cfg) ==
    cfg.SSH_USER \notin {"None", ""} /\ cfg.SSH_PASSWORD \notin {"None", ""}

C25_ConfigCheckedAtConstruction ==
    objs.fn = "ProcessamentoEngine" =>
        /\ ~objs.contacted
        /\ ~CredentialsPresent(objs.cfg) => objs.exc = "ValueError"
        /\ (CredentialsPresent(objs.cfg) /\ objs.cfg.SSH_PORT # "x") => objs.exc = NoExc

\* C28: the text repr() gives for a Credenciais object is the same for
\* any two objects and holds neither the usuario nor the senha, and the
\* text repr() gives for the engine holds none of its field values.
Holds(text, v) == \E i \in 1..Len(text) : text[i] = v

C28_CredentialsNeverRendered ==
    /\ \A p, q \in objs.rendered :
          (p.cls = "Credenciais" /\ q.cls = "Credenciais") => p.text = q.text
    /\ \A p \in objs.rendered :
          /\ ~Holds(p.text, p.of.usuario) /\ ~Holds(p.text, p.of.senha)
          /\ p.cls = "ProcessamentoEngine" =>
                \A i \in 1..Len(EngineValues(p.of)) : ~Holds(p.text, EngineValues(p.of)[i])

C28_Witness ==
    \E p, q, e \in objs.rendered :
        /\ p.cls = "Credenciais" /\ q.cls = "Credenciais"
        /\ p.of.usuario # q.of.usuario /\ p.of.senha # q.of.senha
        /\ p.text = q.text
        /\ e.cls = "ProcessamentoEngine"

\* C26: with every session operation ending and the workers scheduled
\* fairly, processar_em_lote eventually returns to its caller.
C26_EventuallyReturns == <>(cpc = "returned")

\* C27: the progress callback of the caller has been invoked once for
\* each Result the dispatcher has appended, right after the append and
\* with the number of Results collected so far: 1, 2, ...
C27_ProgressPerCompletion ==
    credsOk => progresso = [i \in 1..Len(resultados) |-> i]

\* C30: between two iterations of the dispatcher's loop the counter of
\* consecutive failures equals the number of non-Online Results at the end
\* of the list collected so far.
C30_CounterCountsFailures ==
    credsOk => falhas_consecutivas = TrailingFailures(resultados)

\* C31: every session attempt of a task is made to the task's own host
\* address, on the task's own port, with the task's own username and
\* password.
C31_TaskOwnTarget ==
    \A t \in Submitted :
        attempts[t] > 0 =>
            sess[t].target = [host |-> TaskIp(t), user |-> TaskUsername(t),
                              password |-> TaskPassword(t), port |-> TaskPort(t)]

\* C32: execute_safe_command called on a Connected session with a filter
\* the builder rejects sends nothing and leaves the session as it was,
\* Connected, and the exception it raises is the builder's validation
\* error, not SSHExecutionError.
RejectedFilter(fs) == \E i \in 1..Len(fs) : ~re_match(fs[i])

C32_FilterErrorSurfaces ==
    ( /\ cli.op = "execute"
      /\ cli.pre.connected /\ cli.pre.client
      /\ RejectedFilter(cli.filters) ) =>
        /\ cli.s = cli.pre
        /\ cli.s.connected
        /\ cli.exc = "ValueError"

\* C33: a session the engine opened has been sent at most one command, and
\* that command is wstalist | grep -c '"mac'; it is Connected with nothing
\* sent until the command goes out, it is still Connected and not closed
\* while the worker waits for the exit status, and once it has been closed
\* exactly one command was sent on it.
WstalistMac == <<"wstalist", " | ", "grep -c '\"", "m", "a", "c", "'">>

C33_OneCommandPerSession ==
    \A t \in Submitted :
        /\ Len(sess[t].sent) <= 1
        /\ \A i \in 1..Len(sess[t].sent) : sess[t].sent[i] = WstalistMac
        /\ pc[t] = "inwith" => (sess[t].sent = <<>> /\ sess[t].connected)
        /\ pc[t] = "blocked" =>
              /\ Len(sess[t].sent) = 1
              /\ sess[t].connected /\ sess[t].client /\ ~sess[t].closeRan
        /\ sess[t].closeRan => (Len(sess[t].sent) = 1 /\ pc[t] = "done")

C33_Witness ==
    \E t, u \in Submitted :
        /\ pc[t] = "done" /\ sess[t].closeRan /\ sess[t].sent = <<WstalistMac>>
        /\ pc[u] = "blocked" /\ sess[u].sent = <<WstalistMac>>

\* C34: every step leaves the Results already collected where they are
\* and adds at most one at the end; the one added belongs to a task whose
\* work item has completed and has not been reported, and that task had
\* completed before as_completed was called or is the earliest to have
\* completed since among those not yet reported, whatever its place in
\* the submitted list.
C34_CompletionOrder ==
    [][ /\ Len(resultados') \in {Len(resultados), Len(resultados) + 1}
        /\ SubSeq(resultados', 1, Len(resultados)) = resultados
        /\ Len(resultados') > Len(resultados) =>
              \E t \in Submitted :
                  /\ resultados'[Len(resultados')].ip = TaskIp(t)
                  /\ pc[t] = "done"
                  /\ t \notin yielded
                  /\ \/ t \in snap
                     \/ snap = {} /\ doneQ # <<>> /\ t = Head(doneQ) ]_vars

C34_Witness ==
    /\ Len(resultados) = 2
    /\ resultados[1].ip = TaskIp(2)
    /\ resultados[2].ip = TaskIp(1)
    /\ doneQ = <<>>
    /\ cpc = "returned"

\* C35: the Result a finished work item returned and every Result the
\* dispatcher collected has one of the statuses Online, Offline, Erro
\* Auth, Erro SSH, Timeout, Erro; Desconhecido is the status of the dict
\* only while the check is still under way.
FinalStatuses == {ONLINE, OFFLINE, ERRO_AUTH, ERRO_SSH, TIMEOUT, ERRO}

C35_NoUnknownResult ==
    /\ \A t \in Submitted :
          /\ pc[t] = "done" => res[t].status \in FinalStatuses
          /\ res[t].status = DESCONHECIDO => pc[t] # "done"
    /\ \A i \in 1..Len(resultados) : resultados[i].status \in FinalStatuses

C35_Witness ==
    /\ credsOk
    /\ cpc = "returned"
    /\ \E i, j \in 1..Len(resultados) :
          /\ resultados[i].status = ERRO /\ resultados[i].erro = MsgNote
          /\ resultados[j].status = ONLINE

\* C36: the note made from an SSHExecutionError, or from an exception no
\* except clause names, is the message itself when that has at most 100
\* characters and its first 100 characters otherwise; notes of the other
\* failures are fixed texts.
Capped(e, by) ==
    IF by = "worker"
    THEN e \notin {"AuthenticationError", "DeviceOfflineError", "TimeoutError",
                   "socket.timeout"}
    ELSE e \notin {"TimeoutError", "socket.timeout"}

C36_NoteCapped ==
    nota.made =>
        /\ (nota.erro \in NoteTokens) <=> Capped(nota.exc, nota.by)
        /\ Capped(nota.exc, nota.by) =>
              /\ Len(nota.text) <= NOTE_CAP
              /\ Len(nota.text) <= Len(nota.msg)
              /\ \A i \in 1..Len(nota.text) : nota.text[i] = nota.msg[i]
              /\ Len(nota.msg) <= NOTE_CAP => nota.text = nota.msg
              /\ Len(nota.msg) > NOTE_CAP => Len(nota.text) = NOTE_CAP

C36_Witness ==
    /\ nota.made
    /\ nota.exc = "SSHExecutionError"
    /\ nota.status = ERRO_SSH
    /\ Len(nota.msg) = NOTE_CAP + 1
    /\ Len(nota.text) = NOTE_CAP

\* C37: at every moment of a run no two Results collected belong to the
\* same task, every Result collected belongs to a submitted task whose
\* future the loop has been handed, and there is one Result for each
\* future handed over.
C37_OneResultPerTask ==
    /\ \A i, j \in 1..Len(resultados) :
          resultados[i].ip = resultados[j].ip => i = j
    /\ \A i \in 1..Len(resultados) :
          \E t \in yielded : t \in Submitted /\ resultados[i].ip = TaskIp(t)
    /\ Len(resultados) = Cardinality(yielded)

C37_Witness ==
    /\ ntasks = 2
    /\ cpc = "returned"
    /\ Len(resultados) = 2
    /\ resultados[1].ip = TaskIp(1)
    /\ resultados[2].ip = TaskIp(2)
    /\ resultados[1].status # ONLINE

\* C38: once processar_em_lote has returned or raised, every work item is
\* finished or was cancelled before it started: none is queued, running,
\* inside its with block or waiting for an exit status, every one that
\* started has finished and a session that was sent the command has been
\* closed; and a work item whose
\* future the loop was not handed has no Result in what was collected.
Left == cpc \in {"returned", "raised"}
Reported(t) == \E i \in 1..Len(resultados) : resultados[i].ip = TaskIp(t)

C38_NoWorkerOutlivesRun ==
    Left =>
        \A t \in Submitted :
            /\ pc[t] \in {"done", "cancelled"}
            /\ tries[t] > 0 => pc[t] = "done"
            /\ sess[t].sent # <<>> => sess[t].closeRan
            /\ t \notin yielded => ~Reported(t)

C38_Witness ==
    /\ cpc = "raised"
    /\ late # {}
    /\ \E t \in late : pc[t] = "done" /\ sess[t].closeRan /\ ~Reported(t)
    /\ \E u \in Submitted : Reported(u)

\* C39: an SSHClient whose _connected is True has a client, after every
\* call, a close() whose underlying close raised included; and after
\* close() the client is None.
C39_ConnectedHasClient ==
    /\ cli.s.connected => cli.s.client
    /\ cli.op = "close" => ~cli.s.client

\* C40: the Result a finished work item returned and every Result the
\* dispatcher collected has erro None when its status is Online, and a
\* note that is neither None nor empty when its status is anything else.
NoteMatchesStatus(r) ==
    IF r.status = ONLINE THEN r.erro = NoErro ELSE r.erro \notin {NoErro, EmptyNote}

C40_NoteIffNotOnline ==
    /\ \A t \in Submitted : pc[t] = "done" => NoteMatchesStatus(res[t])
    /\ \A i \in 1..Len(resultados) : NoteMatchesStatus(resultados[i])

C40_Witness ==
    /\ credsOk
    /\ Len(resultados) = 2
    /\ \E i, j \in 1..2 :
          /\ resultados[i].status = ERRO_SSH /\ resultados[i].erro = MsgNote
          /\ resultados[j].status = ONLINE /\ resultados[j].erro = NoErro

====
